---- MODULE Spec2Model ----
(***************************************************************************)
(* Model of pkg/blobserver/s3/enumerate.go: nextStr, the S3 blob           *)
(* enumeration s3Storage.EnumerateBlobs, and the MongoDB-backed sorted     *)
(* key/value store mongoKeys (Get, Find, Set, Delete, CommitBatch).        *)
(*                                                                         *)
(* Go strings are modelled as sequences of byte values (0..255).           *)
(***************************************************************************)
EXTENDS Integers, Sequences, FiniteSets, TLC

VARIABLES
    \* ---- nextStr, called on its own ----
    nsIn,        \* the argument s
    nsOut,       \* the returned string
    nsDone,      \* TRUE once nextStr has returned
    \* ---- one EnumerateBlobs call ----
    bucket,      \* the objects of the S3 bucket: records [Key, Size]
    pc,          \* position of the call
    after,       \* parameter after
    limit,       \* parameter limit
    startAt,     \* local startAt
    objs,        \* local objs: the page ListBucket returned
    idx,         \* position of the range loop in objs (1-based)
    err,         \* the returned error
    sent,        \* the SizedRefs the consumer received from dest, in order
    closed,      \* how many times dest has been closed
    ctxDone,     \* TRUE once ctx.Done() is closed
    cancelAt,    \* history: how many items had been received when ctx was
                 \* cancelled, -1 while it has not been
    got,         \* the Identifiers a paging caller received from its earlier
                 \* calls, in order
    \* ---- the mongoKeys store and its callers ----
    db,          \* mk.db: the documents {key, value} of the collection
    mu,          \* mk.mu: TRUE while locked
    kpc,         \* kpc[p]: position of caller p in its current call
    kop,         \* kop[p]: the call of p: method and arguments
    kidx,        \* kidx[p]: position of CommitBatch's range loop in b.m
    kres,        \* kres[p]: what the call of p returned
    kiter,       \* kiter[p]: what the iterator Find returned to p yields
    kpre,        \* history: kpre[p] is db as it was when p took the lock
    kprev        \* history: kprev[p] is the last Set or Delete p completed

nsVars == <<nsIn, nsOut, nsDone>>
enVars == <<bucket, pc, after, limit, startAt, objs, idx, err, sent, closed, ctxDone,
           cancelAt, got>>
kvVars == <<db, mu, kpc, kop, kidx, kres, kiter, kpre, kprev>>
vars == <<nsVars, enVars, kvVars>>

\* What a step of EnumerateBlobs leaves alone.
notEn == <<nsVars, kvVars, got>>

\* What a step of the store leaves alone.
notKv == <<nsVars, enVars>>

----------------------------------------------------------------------------
(* Strings as byte sequences *)

\* A byte holds 0..ByteMod-1; b[i]++ wraps modulo ByteMod.
ByteMod == 256

MaxByte == ByteMod - 1

Min(a, b) == IF a < b THEN a ELSE b

\* Go's s < t on strings: bytewise lexicographic order.
StrLess(s, t) ==
    LET n == Min(Len(s), Len(t)) IN
    \/ \E i \in 1..n : s[i] < t[i] /\ \A j \in 1..(i - 1) : s[j] = t[j]
    \/ Len(s) < Len(t) /\ \A j \in 1..n : s[j] = t[j]

StrLeq(s, t) == s = t \/ StrLess(s, t)

\* All strings of length exactly n over the byte set B.
RECURSIVE StrOfLen(_, _)
StrOfLen(B, n) ==
    IF n = 0 THEN {<<>>}
    ELSE {Append(s, c) : s \in StrOfLen(B, n - 1), c \in B}

\* All strings of length at most n over the byte set B.
StrUpTo(B, n) == UNION {StrOfLen(B, k) : k \in 0..n}

----------------------------------------------------------------------------
(* nextStr *)

\* The loop of nextStr, entered with index i (the bytes at positions > i
\* have already wrapped to 0): decrement i, increment b[i], stop unless it
\* wrapped.  Positions are 1-based here, so the byte touched is b[i].
RECURSIVE nextStrLoop(_, _)
nextStrLoop(b, i) ==
    IF i > 0
    THEN LET b2 == [b EXCEPT ![i] = (b[i] + 1) % ByteMod] IN
         IF b2[i] # 0 THEN b2 ELSE nextStrLoop(b2, i - 1)
    ELSE b

\* A faulty nextStr: it increments the first byte instead of the last.
nextStrSkip(s) ==
    IF s = <<>> THEN s ELSE [s EXCEPT ![1] = (s[1] + 1) % ByteMod]

nextStr(s) == IF s = <<>> THEN s ELSE nextStrLoop(s, Len(s))

\* Bound: longest argument given to nextStr when it is checked on its own.
MaxStrLen == 3

\* Bytes the arguments are built from: 0, 1, 'f', 0xFE, 0xFF.
SampleBytes == {0, 1, 102, MaxByte - 1, MaxByte}

\* The callers of the store.
Procs == {"p1", "p2"}

NoOp ==
    [name |-> "none", key |-> <<>>, value |-> "",
     bm |-> [type |-> "batch", store |-> "mk", m |-> <<>>]]

NoRes == [err |-> "nil", value |-> ""]

NoPrev == [name |-> "none", key |-> <<>>, value |-> "", err |-> "nil"]

\* The store before any call: an empty collection, nobody calling.
IdleStore ==
    /\ db = {}
    /\ mu = FALSE
    /\ kpc = [p \in Procs |-> "idle"]
    /\ kop = [p \in Procs |-> NoOp]
    /\ kidx = [p \in Procs |-> 0]
    /\ kres = [p \in Procs |-> NoRes]
    /\ kiter = [p \in Procs |-> <<>>]
    /\ kpre = [p \in Procs |-> {}]
    /\ kprev = [p \in Procs |-> NoPrev]

NextStrIdleEnum ==
    /\ bucket = {} /\ pc = "off" /\ after = <<>> /\ limit = 0
    /\ startAt = <<>> /\ objs = <<>> /\ idx = 0 /\ err = "nil"
    /\ sent = <<>> /\ closed = 0 /\ ctxDone = FALSE /\ cancelAt = -1
    /\ got = <<>>

InitNextStr ==
    /\ nsIn \in StrUpTo(SampleBytes, MaxStrLen)
    /\ nsOut = <<>>
    /\ nsDone = FALSE
    /\ NextStrIdleEnum
    /\ IdleStore

CallNextStr ==
    /\ ~nsDone
    /\ nsOut' = nextStr(nsIn)
    /\ nsDone' = TRUE
    /\ UNCHANGED <<nsIn, enVars, kvVars>>

NextNextStr == CallNextStr

SpecNextStr == InitNextStr /\ [][NextNextStr]_vars

AllMaxBytes(s) == \A i \in 1..Len(s) : s[i] = MaxByte

\* C2: nextStr(s) has the length of s and is strictly greater than s, except
\* that it is s itself when every byte of s is 0xFF.
NextStrSuccessor ==
    nsDone =>
        /\ Len(nsOut) = Len(nsIn)
        /\ IF AllMaxBytes(nsIn) THEN nsOut = nsIn ELSE StrLess(nsIn, nsOut)

\* What nextStr does hold: same length, strictly greater unless every byte is
\* 0xFF, and then every byte wraps to 0.
NextStrWraps ==
    nsDone =>
        /\ Len(nsOut) = Len(nsIn)
        /\ IF AllMaxBytes(nsIn)
           THEN \A i \in 1..Len(nsOut) : nsOut[i] = 0
           ELSE StrLess(nsIn, nsOut)

----------------------------------------------------------------------------
(* EnumerateBlobs *)

\* sto.dirPrefix, the namespace of this storage inside the bucket: "p/".
dirPrefix == <<112, 47>>

\* path.Split(key): dir is the key up to and including its last '/' (47),
\* file is what follows it.
LastSlash(key) ==
    LET at == {i \in 1..Len(key) : key[i] = 47} IN
    IF at = {} THEN 0 ELSE CHOOSE i \in at : \A j \in at : j <= i

pathSplit(key) ==
    [dir  |-> SubSeq(key, 1, LastSlash(key)),
     file |-> SubSeq(key, LastSlash(key) + 1, Len(key))]

\* Length of the textual form of an Identifier (fixed-format).
RefLen == 2

\* The hexadecimal digits '0'..'9', 'a'..'f'.
HexDigits == (48..57) \cup (97..102)

\* blob.Parse(s): ok iff s is a well-formed Identifier.
blobParseOk(s) == Len(s) = RefLen /\ \A i \in 1..Len(s) : s[i] \in HexDigits

\* blob.Parse(s): the Identifier; its canonical string form is s.
blobParse(s) == s

\* The object of the set S with the least key (keys are unique in a bucket).
MinObj(S) == CHOOSE o \in S : \A p \in S : StrLeq(o.Key, p.Key)

\* The first n objects of S in ascending key order.
RECURSIVE FirstN(_, _)
FirstN(S, n) ==
    IF n <= 0 \/ S = {} THEN <<>>
    ELSE <<MinObj(S)>> \o FirstN(S \ {MinObj(S)}, n - 1)

\* s3Client.ListBucket(ctx, bucket, startAt, maxKeys): up to maxKeys objects
\* of the whole bucket, in ascending key order, keys before startAt skipped.
ListBucket(b, start, maxKeys) ==
    FirstN({o \in b : StrLeq(start, o.Key)}, maxKeys)

\* startAt := after; if after parses as an Identifier, startAt = nextStr(after).
StartAt(a) == IF blobParseOk(a) THEN nextStr(a) ELSE a

\* A faulty namespace test: no object is taken to be outside.
OutsideNamespaceNever(dir) == FALSE

\* dir != sto.dirPrefix: the object is not in this storage's namespace.
OutsideNamespace(dir) == dir # dirPrefix

\* file == after: the entry the caller already has.
IsAfter(file, a) == file = a

\* A faulty loop: an entry that does not parse is passed over as well.
SkipEntryLenient(dir, file, a) ==
    OutsideNamespace(dir) \/ IsAfter(file, a) \/ ~blobParseOk(file)

\* The two continue statements of the loop: the entry is passed over without
\* being parsed.
SkipEntry(dir, file, a) == OutsideNamespace(dir) \/ IsAfter(file, a)

\* A faulty select: it has no case for ctx.Done().
DoneReadyNever(done) == FALSE

\* case <-ctx.Done() of the select can be taken once ctx is done.
DoneReady(done) == done

\* A faulty cancellation path: it returns nil.
CtxErrNil == [kind |-> "nil", file |-> <<>>]

\* return ctx.Err()
CtxErr == [kind |-> "ctx.Err", file |-> <<>>]

\* blob.SizedRef{Ref: br, Size: uint32(obj.Size)}; the sizes of the model are
\* below 2^31, where uint32() keeps them.
SizedRef(obj) == [Ref |-> blobParse(pathSplit(obj.Key).file), Size |-> obj.Size]

\* A faulty return: dest is left open.
CloseDestMissing(n) == n

\* defer close(dest): runs once, when the call returns.
CloseDest(n) == n + 1

\* A faulty loop: it stays on the same element.
NextIdxStuck(i) == i

\* The range loop moves to the next element of objs.
NextIdx(i) == i + 1

\* The error values the call returns.
ErrNil == [kind |-> "nil", file |-> <<>>]
ErrFault == [kind |-> "fault", file |-> <<>>]
ErrListBucket == [kind |-> "ListBucket", file |-> <<>>]
ErrNonPerkeep(file) == [kind |-> "non-Perkeep object", file |-> file]

\* The objects a bucket may hold:
\*   "p/"      the namespace's own directory marker (empty basename)
\*   "p/0a"    Identifier 0a
\*   "p/0a0"   a foreign object in the namespace (not an Identifier)
\*   "p/0b"    Identifier 0b
\*   "p/1a"    Identifier 1a
\*   "p/s/0a"  Identifier 0a in a sub-namespace
\*   "q/0a"    Identifier 0a outside the namespace
Universe ==
    { [Key |-> <<112, 47>>, Size |-> 0],
      [Key |-> <<112, 47, 48, 97>>, Size |-> 10],
      [Key |-> <<112, 47, 48, 97, 48>>, Size |-> 7],
      [Key |-> <<112, 47, 48, 98>>, Size |-> 20],
      [Key |-> <<112, 47, 49, 97>>, Size |-> 30],
      [Key |-> <<112, 47, 115, 47, 48, 97>>, Size |-> 40],
      [Key |-> <<113, 47, 48, 97>>, Size |-> 50] }

\* The values of after a caller passes: "", "09", "0a", "0a0", "0b".
Afters ==
    { <<>>, <<48, 57>>, <<48, 97>>, <<48, 97, 48>>, <<48, 98>> }

\* Bound: the largest limit a caller passes.
MaxLimit == 3

IdleNextStr == nsIn = <<>> /\ nsOut = <<>> /\ nsDone = FALSE

Init ==
    /\ bucket \in SUBSET Universe
    /\ pc = "idle"
    /\ after = <<>> /\ limit = 0 /\ startAt = <<>> /\ objs = <<>> /\ idx = 0
    /\ err = ErrNil /\ sent = <<>> /\ closed = 0 /\ ctxDone = FALSE /\ cancelAt = -1
    /\ got = <<>>
    /\ IdleNextStr
    /\ IdleStore

\* Every return of the call: the error is set and the deferred close runs.
Return(e) ==
    /\ pc' = "done"
    /\ err' = e
    /\ closed' = CloseDest(closed)

\* A caller calls EnumerateBlobs(ctx, dest, a, l).
EnumerateBlobs(a, l) ==
    /\ pc = "idle"
    /\ after' = a
    /\ limit' = l
    /\ pc' = "entry"
    /\ UNCHANGED <<bucket, startAt, objs, idx, err, sent, closed, ctxDone, cancelAt, notEn>>

\* faultEnumerate.FailErr(&err) reports an injected fault: return it.
FaultInjected ==
    /\ pc = "entry"
    /\ Return(ErrFault)
    /\ UNCHANGED <<bucket, after, limit, startAt, objs, idx, sent, ctxDone, cancelAt, notEn>>

\* startAt is computed and ListBucket returns a page (it is given ctx, and
\* returns an error instead once ctx is done).
ListOk ==
    /\ pc = "entry"
    /\ ~ctxDone
    /\ startAt' = StartAt(after)
    /\ objs' = ListBucket(bucket, dirPrefix \o StartAt(after), limit)
    /\ idx' = 1
    /\ pc' = "loop"
    /\ UNCHANGED <<bucket, after, limit, err, sent, closed, ctxDone, cancelAt, notEn>>

\* ListBucket fails (the backend fails, or ctx is already done): return its
\* error.
ListFails ==
    /\ pc = "entry"
    /\ startAt' = StartAt(after)
    /\ Return(ErrListBucket)
    /\ UNCHANGED <<bucket, after, limit, objs, idx, sent, ctxDone, cancelAt, notEn>>

\* One iteration of the range loop, up to the select.
LoopSkip ==
    /\ pc = "loop" /\ idx <= Len(objs)
    /\ LET sp == pathSplit(objs[idx].Key) IN SkipEntry(sp.dir, sp.file, after)
    /\ idx' = NextIdx(idx)
    /\ UNCHANGED <<bucket, pc, after, limit, startAt, objs, err, sent, closed, ctxDone, cancelAt, notEn>>

LoopNonPerkeep ==
    /\ pc = "loop" /\ idx <= Len(objs)
    /\ LET sp == pathSplit(objs[idx].Key) IN
         /\ ~SkipEntry(sp.dir, sp.file, after)
         /\ ~blobParseOk(sp.file)
         /\ Return(ErrNonPerkeep(sp.file))
    /\ UNCHANGED <<bucket, after, limit, startAt, objs, idx, sent, ctxDone, cancelAt, notEn>>

LoopOffer ==
    /\ pc = "loop" /\ idx <= Len(objs)
    /\ LET sp == pathSplit(objs[idx].Key) IN
         /\ ~SkipEntry(sp.dir, sp.file, after)
         /\ blobParseOk(sp.file)
    /\ pc' = "select"
    /\ UNCHANGED <<bucket, after, limit, startAt, objs, idx, err, sent, closed, ctxDone, cancelAt, notEn>>

\* select, case dest <- SizedRef: the consumer receives the item.
SelectSend ==
    /\ pc = "select"
    /\ sent' = Append(sent, SizedRef(objs[idx]))
    /\ idx' = NextIdx(idx)
    /\ pc' = "loop"
    /\ UNCHANGED <<bucket, after, limit, startAt, objs, err, closed, ctxDone, cancelAt, notEn>>

\* select, case <-ctx.Done(): return ctx.Err().
SelectDone ==
    /\ pc = "select"
    /\ DoneReady(ctxDone)
    /\ Return(CtxErr)
    /\ UNCHANGED <<bucket, after, limit, startAt, objs, idx, sent, ctxDone, cancelAt, notEn>>

\* The loop is over: return nil.
ReturnNil ==
    /\ pc = "loop" /\ idx > Len(objs)
    /\ Return(ErrNil)
    /\ UNCHANGED <<bucket, after, limit, startAt, objs, idx, sent, ctxDone, cancelAt, notEn>>

\* The caller cancels ctx while the call runs.
Cancel ==
    /\ pc \in {"entry", "loop", "select"}
    /\ ~ctxDone
    /\ ctxDone' = TRUE
    /\ cancelAt' = Len(sent)
    /\ UNCHANGED <<bucket, pc, after, limit, startAt, objs, idx, err, sent, closed, notEn>>

\* The steps the goroutine running the call takes without the consumer.
CallStep ==
    \/ FaultInjected \/ ListOk \/ ListFails
    \/ LoopSkip \/ LoopNonPerkeep \/ LoopOffer
    \/ SelectDone \/ ReturnNil

Next ==
    \/ \E a \in Afters, l \in 0..MaxLimit : EnumerateBlobs(a, l)
    \/ CallStep
    \/ SelectSend
    \/ Cancel

Spec == Init /\ [][Next]_vars

\* The goroutine running the call is scheduled as long as it can take a step;
\* nothing makes the consumer receive or the caller cancel.
FairSpec == Spec /\ WF_vars(CallStep)

\* A caller pages through the bucket: the objects of Universe and one of the
\* sub-namespace "0/" (p/0/0a), whose key sorts before every Identifier of
\* the namespace.
PageUniverse ==
    Universe \cup { [Key |-> <<112, 47, 48, 47, 48, 97>>, Size |-> 60] }

InitPage ==
    /\ bucket \in SUBSET PageUniverse
    /\ pc = "idle"
    /\ after = <<>> /\ limit = 0 /\ startAt = <<>> /\ objs = <<>> /\ idx = 0
    /\ err = ErrNil /\ sent = <<>> /\ closed = 0 /\ ctxDone = FALSE /\ cancelAt = -1
    /\ got = <<>>
    /\ IdleNextStr
    /\ IdleStore

\* The first call of the paging caller: after = "", the limit it keeps.
PageFirst(l) == EnumerateBlobs(<<>>, l)

\* The call returned nil and emitted something: the caller keeps what it
\* received and calls again, with a new dest, the same limit and ctx, and
\* after = the last ref received.
PageNext ==
    /\ pc = "done" /\ err = ErrNil /\ sent # <<>>
    /\ got' = got \o [i \in 1..Len(sent) |-> sent[i].Ref]
    /\ after' = sent[Len(sent)].Ref
    /\ pc' = "entry"
    /\ startAt' = <<>> /\ objs' = <<>> /\ idx' = 0
    /\ sent' = <<>> /\ closed' = 0
    /\ UNCHANGED <<bucket, limit, err, ctxDone, cancelAt, nsVars, kvVars>>

NextPage ==
    \/ \E l \in 1..MaxLimit : PageFirst(l)
    \/ CallStep
    \/ SelectSend
    \/ Cancel
    \/ PageNext

SpecPage == InitPage /\ [][NextPage]_vars

----------------------------------------------------------------------------
(* Properties of EnumerateBlobs *)

\* The error a cancelled context reports.
Cancelled == [kind |-> "ctx.Err", file |-> <<>>]

\* The Identifiers received so far, and the place of one among them.
SentRefs == {sent[i].Ref : i \in 1..Len(sent)}

SentPos(r) == CHOOSE i \in 1..Len(sent) : sent[i].Ref = r

\* The valid Identifiers held in the configured namespace.
RefsInNamespace ==
    {pathSplit(o.Key).file : o \in {x \in bucket :
        /\ pathSplit(x.Key).dir = dirPrefix
        /\ blobParseOk(pathSplit(x.Key).file)}}

\* How many backend keys lie after lo (from lo on, if incl) and up to hi.
KeysThrough(lo, incl, hi) ==
    Cardinality({o \in bucket :
        /\ IF incl THEN StrLeq(lo, o.Key) ELSE StrLess(lo, o.Key)
        /\ StrLeq(o.Key, hi)})

\* The positions of the page holding an entry of the namespace, other than
\* after, that is an Identifier (Eligible) or is none (Foreign).
Eligible ==
    {i \in 1..Len(objs) :
        LET sp == pathSplit(objs[i].Key) IN
        sp.dir = dirPrefix /\ sp.file # after /\ blobParseOk(sp.file)}

Foreign ==
    {i \in 1..Len(objs) :
        LET sp == pathSplit(objs[i].Key) IN
        sp.dir = dirPrefix /\ sp.file # after /\ ~blobParseOk(sp.file)}

\* The positions of the page holding an entry of the namespace that is no
\* Identifier, whatever after is.
Unparseable ==
    {i \in 1..Len(objs) :
        LET sp == pathSplit(objs[i].Key) IN
        sp.dir = dirPrefix /\ ~blobParseOk(sp.file)}

Least(S) == CHOOSE i \in S : \A j \in S : i <= j

\* C1, as claimed (for the calls that return nil and were given limit >= 1):
\* for valid Identifiers a < b of the namespace, EnumerateBlobs(after=a) emits
\* b and not a, and EnumerateBlobs(after="") emits both, a before b.
EnumerateFromMarker ==
    (pc = "done" /\ err = ErrNil /\ limit >= 1) =>
        \A a, b \in RefsInNamespace :
            StrLess(a, b) =>
                /\ after = a => (b \in SentRefs /\ a \notin SentRefs)
                /\ after = <<>> =>
                      /\ a \in SentRefs /\ b \in SentRefs
                      /\ SentPos(a) < SentPos(b)

\* C1, amended: EnumerateBlobs(after=a) never emits a; a call that returns
\* nil emits b when limit is at least the number of backend keys after
\* dirPrefix+a up to dirPrefix+b, and with after="" emits a before b when limit
\* is at least the number of backend keys from dirPrefix up to dirPrefix+b.
EnumerateFromMarkerWithinLimit ==
    \A a, b \in RefsInNamespace :
        StrLess(a, b) =>
            /\ after = a => a \notin SentRefs
            /\ (/\ pc = "done" /\ err = ErrNil /\ after = a
                /\ limit >= KeysThrough(dirPrefix \o a, FALSE, dirPrefix \o b))
                   => b \in SentRefs
            /\ (/\ pc = "done" /\ err = ErrNil /\ after = <<>>
                /\ limit >= KeysThrough(dirPrefix, TRUE, dirPrefix \o b))
                   => /\ a \in SentRefs /\ b \in SentRefs
                      /\ SentPos(a) < SentPos(b)

\* Witness of C1: a call with after="0a" returned nil and emitted "0b", both
\* being in the namespace.
EnumerateFromMarkerReached ==
    /\ pc = "done" /\ err = ErrNil /\ after = <<48, 97>>
    /\ {<<48, 97>>, <<48, 98>>} \subseteq RefsInNamespace
    /\ <<48, 98>> \in SentRefs

\* C3, as claimed (for the calls that return nil): an entry of the namespace
\* in the page that is no Identifier is never passed over, whatever after is.
ForeignNeverSkipped ==
    (pc = "done" /\ err = ErrNil) => Unparseable = {}

\* C3, amended: when the page holds an entry of the namespace whose basename
\* is not after and is no Identifier, the call does not return nil: it returns
\* the integrity error naming the first such entry, or the cancellation error
\* of an earlier select; an entry whose basename is after is passed over
\* unparsed.
ForeignOtherThanAfterFails ==
    pc = "done" =>
        /\ err = ErrNil => Foreign = {}
        /\ err.kind = "non-Perkeep object" =>
              /\ Foreign # {}
              /\ err.file = pathSplit(objs[Least(Foreign)].Key).file
        /\ (Foreign # {} /\ err.kind \notin {"non-Perkeep object"}) =>
              /\ err = Cancelled
              /\ \E i \in Eligible : i < Least(Foreign)

\* Witness of C3: the call returned the integrity error naming "0a0" after
\* having emitted an item.
ForeignFailsReached ==
    /\ pc = "done"
    /\ err = ErrNonPerkeep(<<48, 97, 48>>)
    /\ Len(sent) = 1

\* C4: dest is closed exactly once on every return (not before), and once the
\* call has returned nothing is sent on dest and it is not closed again.
DestClosedOnce ==
    /\ [](closed = IF pc = "done" THEN 1 ELSE 0)
    /\ [][pc = "done" => (sent' = sent /\ closed' = closed)]_vars

\* Witness of C4: the call has returned through the cancellation path, after
\* an item was received, with dest closed.
DestClosedReached ==
    pc = "done" /\ err = Cancelled /\ closed = 1 /\ Len(sent) = 1

\* C5, as claimed: the first item was received, ctx was cancelled then, no
\* second item was received, and the page held two eligible entries: the call
\* returns ctx.Err() and dest is closed.
CancelAfterFirst ==
    (pc = "done" /\ cancelAt = 1 /\ Len(sent) = 1 /\ Cardinality(Eligible) >= 2) =>
        (err = Cancelled /\ closed = 1)

\* C5, amended: the same, when no entry of the namespace that is no Identifier
\* (and is not after) precedes the second eligible entry in the page.
CancelAfterFirstNoForeign ==
    (/\ pc = "done" /\ cancelAt = 1 /\ Len(sent) = 1
     /\ Cardinality(Eligible) >= 2
     /\ \A i \in Foreign : i > Least(Eligible \ {Least(Eligible)})) =>
        (err = Cancelled /\ closed = 1)

\* Witness of C5: that case, with a foreign entry after the second eligible one.
CancelAfterFirstReached ==
    /\ pc = "done" /\ cancelAt = 1 /\ Len(sent) = 1
    /\ Cardinality(Eligible) >= 2
    /\ err = Cancelled /\ closed = 1

\* C6, as claimed: a call does not return nil once ctx has been cancelled.
NoSuccessAfterCancel ==
    (pc = "done" /\ ctxDone) => err # ErrNil

\* C6, amended: once ctx has been cancelled the call returns, even if the
\* consumer receives nothing more; a call that leaves its select by returning
\* returns ctx.Err(), and ctx.Err() is returned only after the cancellation.
\* (The call may return nil after the cancellation, when no send is pending.)
CancelEndsCall ==
    /\ ctxDone ~> (pc = "done")
    /\ [][(pc = "select" /\ pc' = "done") => err' = Cancelled]_vars
    /\ []((pc = "done" /\ err.kind = "ctx.Err") => ctxDone)

\* Witness of C6: the call returned ctx.Err() with an eligible entry left
\* unsent.
CancelEndsCallReached ==
    /\ pc = "done" /\ ctxDone /\ err.kind = "ctx.Err"
    /\ Cardinality(Eligible) > Len(sent)

\* C7: every item emitted is the Identifier (and size) of an object whose key
\* is dirPrefix followed by that Identifier: no key outside the namespace, or
\* in a sub-namespace, is emitted.
OnlyNamespaceEmitted ==
    \A i \in 1..Len(sent) :
        \E o \in bucket :
            o.Key = dirPrefix \o sent[i].Ref /\ o.Size = sent[i].Size

\* Witness of C7: the call went through a page holding a sub-namespace key and
\* a key outside the namespace, and emitted an item.
OnlyNamespaceReached ==
    /\ pc = "done" /\ err = ErrNil /\ Len(sent) >= 1
    /\ \E i, j \in 1..Len(objs) :
          /\ objs[i].Key = <<112, 47, 115, 47, 48, 97>>
          /\ objs[j].Key = <<113, 47, 48, 97>>

\* C8: the items received within one call are strictly increasing by
\* Identifier.
SentStrictlyIncreasing ==
    \A i, j \in 1..Len(sent) : i < j => StrLess(sent[i].Ref, sent[j].Ref)

\* Witness of C8: a call emitted three items.
SentIncreasingReached == pc = "done" /\ Len(sent) = 3

\* C18: when the paging caller stops, at the first call that returns nil
\* having emitted nothing, it has received every valid Identifier of the
\* namespace, once each, in ascending order.
PagingComplete ==
    (pc = "done" /\ err = ErrNil /\ sent = <<>> /\ limit >= 1) =>
        /\ {got[i] : i \in 1..Len(got)} = RefsInNamespace
        /\ \A i, j \in 1..Len(got) : i < j => StrLess(got[i], got[j])

----------------------------------------------------------------------------
(* mongoKeys: the sorted key/value store *)

\* The documents of d whose key field is k.
Matching(d, k) == {x \in d : x.key = k}

\* The document a single-document call picks among those matching k.
OneOf(d, k) == CHOOSE x \in Matching(d, k) : TRUE

\* mgo Collection.Upsert(selector {key: k}, document {key: k, value: v}):
\* replaces one matching document, or inserts the document when none matches.
mgoUpsert(d, k, v) ==
    IF Matching(d, k) = {}
    THEN d \cup {[key |-> k, value |-> v]}
    ELSE (d \ {OneOf(d, k)}) \cup {[key |-> k, value |-> v]}

\* mgo Collection.Remove(selector {key: k}): removes one matching document;
\* in safe mode it returns the not-found sentinel when none matches.
mgoRemove(d, k) ==
    IF Matching(d, k) = {}
    THEN [db |-> d, err |-> "mgo.NotFound"]
    ELSE [db |-> d \ {OneOf(d, k)}, err |-> "nil"]

\* mgo Collection.RemoveAll(nil): removes every document.
mgoRemoveAll(d) == [db |-> {}, err |-> "nil"]

\* mgo Query.One for Find({key: k}): one matching document, or the not-found
\* sentinel.
mgoFindOne(d, k) ==
    IF Matching(d, k) = {}
    THEN [value |-> "", err |-> "mgo.NotFound"]
    ELSE [value |-> OneOf(d, k).value, err |-> "nil"]

\* The result of Get: mgo.NotFound becomes ErrNotFound, any other error is
\* returned as it is.
GetResult(r) ==
    IF r.err # "nil"
    THEN IF r.err = "mgo.NotFound"
         THEN [err |-> "ErrNotFound", value |-> ""]
         ELSE [err |-> r.err, value |-> ""]
    ELSE [err |-> "nil", value |-> r.value]

\* strings.Replace(key, "|", `\|`, -1): a backslash before every '|' (124).
RECURSIVE cleanedKey(_)
cleanedKey(key) ==
    IF key = <<>> THEN <<>>
    ELSE (IF Head(key) = 124 THEN <<92, 124>> ELSE <<Head(key)>>)
         \o cleanedKey(Tail(key))

\* The $regex Find gives the backend: "^" + cleanedKey.
FindPattern(key) == <<94>> \o cleanedKey(key)

\* The backend's regular expressions, for the patterns built from letters,
\* '.', '|', '^' and backslash: a backslash makes the next character a
\* literal, '.' stands for any character, '|' separates alternatives, '^'
\* anchors an alternative at the start of the string.
RECURSIVE regexAtoms(_)
regexAtoms(pat) ==
    IF pat = <<>> THEN <<>>
    ELSE IF Head(pat) = 92 /\ Len(pat) >= 2
    THEN <<[kind |-> "lit", c |-> pat[2]]>> \o regexAtoms(SubSeq(pat, 3, Len(pat)))
    ELSE IF Head(pat) = 46
    THEN <<[kind |-> "any", c |-> 0]>> \o regexAtoms(Tail(pat))
    ELSE IF Head(pat) = 124
    THEN <<[kind |-> "alt", c |-> 0]>> \o regexAtoms(Tail(pat))
    ELSE IF Head(pat) = 94
    THEN <<[kind |-> "bol", c |-> 0]>> \o regexAtoms(Tail(pat))
    ELSE <<[kind |-> "lit", c |-> Head(pat)]>> \o regexAtoms(Tail(pat))

\* The alternatives of a pattern: its atoms between the '|'.
RECURSIVE regexAlts(_)
regexAlts(as) ==
    LET bars == {i \in 1..Len(as) : as[i].kind = "alt"} IN
    IF bars = {} THEN {as}
    ELSE LET i == CHOOSE b \in bars : \A j \in bars : b <= j IN
         {SubSeq(as, 1, i - 1)} \cup regexAlts(SubSeq(as, i + 1, Len(as)))

\* The atoms as match a prefix of s.
RECURSIVE regexMatchHere(_, _)
regexMatchHere(as, s) ==
    IF as = <<>> THEN TRUE
    ELSE IF s = <<>> \/ Head(as).kind = "bol" THEN FALSE
    ELSE /\ Head(as).kind = "lit" => Head(as).c = Head(s)
         /\ regexMatchHere(Tail(as), Tail(s))

\* {key: {$regex: pat}} selects the documents whose key has a match of pat.
regexMatch(pat, s) ==
    \E as \in regexAlts(regexAtoms(pat)) :
        IF as # <<>> /\ Head(as).kind = "bol"
        THEN regexMatchHere(Tail(as), s)
        ELSE \E i \in 0..Len(s) : regexMatchHere(as, SubSeq(s, i + 1, Len(s)))

\* Query.Sort({key: 1}): the documents in ascending order of key.
RECURSIVE mgoSort(_)
mgoSort(S) ==
    IF S = {} THEN <<>>
    ELSE LET m == CHOOSE x \in S : \A y \in S : StrLeq(x.key, y.key) IN
         <<m>> \o mgoSort(S \ {m})

\* The query of Find, and what its iterator yields.
FindCall(d, key) == mgoSort({x \in d : regexMatch(FindPattern(key), x.key)})

\* A faulty Set: the document is inserted, whatever the collection holds.
InsertCall(d, k, v) == d \cup {[key |-> k, value |-> v]}

\* The backend call of Set: Upsert with the selector {key: k} and the document
\* {key: k, value: v}.
UpsertCall(d, k, v) == mgoUpsert(d, k, v)

\* A faulty Delete: the empty key is removed like any other key.
DeleteCallNoWipe(d, k) == mgoRemove(d, k)

\* The backend call of Delete: RemoveAll for the empty key, Remove otherwise.
DeleteCall(d, k) == IF k = <<>> THEN mgoRemoveAll(d) ELSE mgoRemove(d, k)

\* The backend call CommitBatch makes for the mutation m of a batch.
MutationCall(d, m) ==
    IF m.delete
    THEN mgoRemove(d, m.key)
    ELSE [db |-> mgoUpsert(d, m.key, m.value), err |-> "nil"]

\* A faulty error test: the loop of CommitBatch goes on after a failed call.
FailedNever(e) == FALSE

\* err != nil, the test CommitBatch makes after each backend call.
Failed(e) == e # "nil"

\* A faulty type test: every BatchMutation is taken for a *batch.
IsBatchAny(bm) == TRUE

\* bm.(*batch): ok iff bm is of the type BeginBatch returns.
IsBatch(bm) == bm.type = "batch"

\* A faulty mutex: Lock returns whether or not the mutex is held.
CanLockAlways(m) == TRUE

\* mk.mu.Lock() returns once the mutex is free, and holds it.
CanLock(m) == ~m

\* A method that returns without unlocking.
UnlockMissing(m) == m

\* defer mk.mu.Unlock()
Unlock(m) == FALSE

\* The keys callers use: "", "a", "b".
Keys == { <<>>, <<97>>, <<98>> }

\* The keys the mutations of a batch use: "", "a".
BatchKeys == { <<>>, <<97>> }

Values == {"v1", "v2"}

\* Bound: the longest batch committed.
MaxBatch == 3

\* The mutations a batch accumulates: Set(key, value) and Delete(key).
Mutations ==
    {[delete |-> FALSE, key |-> k, value |-> v] : k \in BatchKeys, v \in Values}
    \cup {[delete |-> TRUE, key |-> k, value |-> ""] : k \in BatchKeys}

RECURSIVE SeqOfLen(_, _)
SeqOfLen(S, n) ==
    IF n = 0 THEN {<<>>}
    ELSE {Append(s, x) : s \in SeqOfLen(S, n - 1), x \in S}

\* The stores whose BeginBatch made a batch: this store mk, and another
\* mongoKeys instance.
Stores == {"mk", "mk2"}

\* What CommitBatch is given: the batches BeginBatch of mk or of another
\* instance returned, with up to MaxBatch mutations, and a BatchMutation of
\* another type.
Batches ==
    {[type |-> "batch", store |-> s, m |-> ms] :
        s \in Stores, ms \in UNION {SeqOfLen(Mutations, n) : n \in 0..MaxBatch}}
    \cup {[type |-> "other", store |-> "mk", m |-> <<>>]}

\* The calls a caller makes.
Ops ==
    {[name |-> "Get", key |-> k, value |-> "", bm |-> NoOp.bm] : k \in Keys}
    \cup {[name |-> "Set", key |-> k, value |-> v, bm |-> NoOp.bm] :
            k \in Keys, v \in Values}
    \cup {[name |-> "Delete", key |-> k, value |-> "", bm |-> NoOp.bm] : k \in Keys}
    \cup {[name |-> "Find", key |-> k, value |-> "", bm |-> NoOp.bm] : k \in Keys}
    \cup {[name |-> "CommitBatch", key |-> <<>>, value |-> "", bm |-> b] :
            b \in Batches}

\* The keys of the calls made one at a time without batches: "", "a", "ab",
\* "a|b"; and the prefixes given to Find: "", "a", "a|", "a.".
DirectKeys == { <<>>, <<97>>, <<97, 98>>, <<97, 124, 98>> }

Prefixes == { <<>>, <<97>>, <<97, 124>>, <<97, 46>> }

DirectOps ==
    {[name |-> "Get", key |-> k, value |-> "", bm |-> NoOp.bm] : k \in DirectKeys}
    \cup {[name |-> "Set", key |-> k, value |-> v, bm |-> NoOp.bm] :
            k \in DirectKeys, v \in Values}
    \cup {[name |-> "Delete", key |-> k, value |-> "", bm |-> NoOp.bm] :
            k \in DirectKeys}
    \cup {[name |-> "Find", key |-> k, value |-> "", bm |-> NoOp.bm] :
            k \in Prefixes}

\* Caller p calls the method o.name with o's arguments.
CallStore(p, o) ==
    /\ kpc[p] = "idle"
    /\ kpc' = [kpc EXCEPT ![p] = "called"]
    /\ kop' = [kop EXCEPT ![p] = o]
    /\ UNCHANGED <<db, mu, kidx, kres, kiter, kpre, kprev, notKv>>

\* Caller p has taken the result of its call and is ready for its next one.
TakeResult(p) ==
    /\ kpc[p] = "done"
    /\ kpc' = [kpc EXCEPT ![p] = "idle"]
    /\ kop' = [kop EXCEPT ![p] = NoOp]
    /\ kres' = [kres EXCEPT ![p] = NoRes]
    /\ kidx' = [kidx EXCEPT ![p] = 0]
    /\ kiter' = [kiter EXCEPT ![p] = <<>>]
    /\ kpre' = [kpre EXCEPT ![p] = {}]
    /\ UNCHANGED <<db, mu, notKv>>

Finish(p) == TakeResult(p) /\ UNCHANGED kprev

\* The same, the history keeping the call when it was a Set or a Delete.
FinishNoted(p) ==
    /\ TakeResult(p)
    /\ kprev' = IF kop[p].name \in {"Set", "Delete"}
                THEN [kprev EXCEPT ![p] = [name |-> kop[p].name, key |-> kop[p].key,
                                           value |-> kop[p].value,
                                           err |-> kres[p].err]]
                ELSE kprev

\* CommitBatch: bm is not a *batch; the error is returned without locking.
CommitBatchInvalid(p) ==
    /\ kpc[p] = "called"
    /\ kop[p].name = "CommitBatch"
    /\ ~IsBatch(kop[p].bm)
    /\ kpc' = [kpc EXCEPT ![p] = "done"]
    /\ kres' = [kres EXCEPT ![p] = [err |-> "invalid batch type", value |-> ""]]
    /\ UNCHANGED <<db, mu, kop, kidx, kiter, kpre, kprev, notKv>>

\* mk.mu.Lock()
Lock(p) ==
    /\ kpc[p] = "called"
    /\ kop[p].name = "CommitBatch" => IsBatch(kop[p].bm)
    /\ CanLock(mu)
    /\ mu' = TRUE
    /\ kpc' = [kpc EXCEPT ![p] = "locked"]
    /\ kidx' = [kidx EXCEPT ![p] = 1]
    /\ kpre' = [kpre EXCEPT ![p] = db]
    /\ UNCHANGED <<db, kop, kres, kiter, kprev, notKv>>

\* A method returns r: the deferred Unlock runs.
ReturnStore(p, r) ==
    /\ kres' = [kres EXCEPT ![p] = r]
    /\ kpc' = [kpc EXCEPT ![p] = "done"]
    /\ mu' = Unlock(mu)

\* The outcome r of a backend call, or the failure of the backend.
BackendCall(r, fails) ==
    IF fails THEN [db |-> db, err |-> "backend", value |-> ""] ELSE r

\* Get, under the lock.
Get(p) ==
    /\ kpc[p] = "locked" /\ kop[p].name = "Get"
    /\ \E fails \in BOOLEAN :
         LET r == IF fails THEN [value |-> "", err |-> "backend"]
                  ELSE mgoFindOne(db, kop[p].key) IN
         ReturnStore(p, GetResult(r))
    /\ UNCHANGED <<db, kop, kidx, kiter, kpre, kprev, notKv>>

\* Find, under the lock: the query is made and its iterator returned. (The
\* iterator is modelled by what it yields when the caller drains it at once.)
Find(p) ==
    /\ kpc[p] = "locked" /\ kop[p].name = "Find"
    /\ kiter' = [kiter EXCEPT ![p] = FindCall(db, kop[p].key)]
    /\ ReturnStore(p, NoRes)
    /\ UNCHANGED <<db, kop, kidx, kpre, kprev, notKv>>

\* Set, under the lock.
Set(p) ==
    /\ kpc[p] = "locked" /\ kop[p].name = "Set"
    /\ \E fails \in BOOLEAN :
         LET r == BackendCall([db |-> UpsertCall(db, kop[p].key, kop[p].value),
                               err |-> "nil"], fails) IN
         /\ db' = r.db
         /\ ReturnStore(p, [err |-> r.err, value |-> ""])
    /\ UNCHANGED <<kop, kidx, kiter, kpre, kprev, notKv>>

\* Delete, under the lock.
Delete(p) ==
    /\ kpc[p] = "locked" /\ kop[p].name = "Delete"
    /\ \E fails \in BOOLEAN :
         LET r == BackendCall(DeleteCall(db, kop[p].key), fails) IN
         /\ db' = r.db
         /\ ReturnStore(p, [err |-> r.err, value |-> ""])
    /\ UNCHANGED <<kop, kidx, kiter, kpre, kprev, notKv>>

\* CommitBatch, under the lock: one iteration of the range loop over b.m.
CommitBatchStep(p) ==
    /\ kpc[p] = "locked" /\ kop[p].name = "CommitBatch"
    /\ kidx[p] <= Len(kop[p].bm.m)
    /\ \E fails \in BOOLEAN :
         LET r == BackendCall(MutationCall(db, kop[p].bm.m[kidx[p]]), fails) IN
         /\ db' = r.db
         /\ IF Failed(r.err)
            THEN /\ ReturnStore(p, [err |-> r.err, value |-> ""])
                 /\ UNCHANGED kidx
            ELSE /\ kidx' = [kidx EXCEPT ![p] = kidx[p] + 1]
                 /\ UNCHANGED <<kpc, kres, mu>>
    /\ UNCHANGED <<kop, kiter, kpre, kprev, notKv>>

\* CommitBatch, under the lock: the loop is over, return nil.
CommitBatchReturn(p) ==
    /\ kpc[p] = "locked" /\ kop[p].name = "CommitBatch"
    /\ kidx[p] > Len(kop[p].bm.m)
    /\ ReturnStore(p, [err |-> "nil", value |-> ""])
    /\ UNCHANGED <<db, kop, kidx, kiter, kpre, kprev, notKv>>

StoreStep(p) ==
    \/ \E o \in Ops : CallStore(p, o)
    \/ CommitBatchInvalid(p)
    \/ Lock(p)
    \/ Get(p)
    \/ Find(p)
    \/ Set(p)
    \/ Delete(p)
    \/ CommitBatchStep(p)
    \/ CommitBatchReturn(p)
    \/ Finish(p)

InitStore ==
    /\ IdleStore
    /\ IdleNextStr
    /\ NextStrIdleEnum

\* One caller at a time: p1 makes its calls one after the other.
NextStore == StoreStep("p1")

SpecStore == InitStore /\ [][NextStore]_vars

\* One caller making Get, Set, Delete and Find calls one after the other.
DirectStep(p) ==
    \/ \E o \in DirectOps : CallStore(p, o)
    \/ Lock(p)
    \/ Get(p)
    \/ Find(p)
    \/ Set(p)
    \/ Delete(p)
    \/ FinishNoted(p)

NextDirect == DirectStep("p1")

SpecDirect == InitStore /\ [][NextDirect]_vars

\* The calls concurrent callers make: on the key "a", on the empty key and
\* prefix, and commits of two batches of two mutations and of a BatchMutation
\* of another type.
ConcBatches ==
    {[type |-> "batch", store |-> "mk",
      m |-> <<[delete |-> FALSE, key |-> <<97>>, value |-> "v1"],
              [delete |-> TRUE, key |-> <<97>>, value |-> ""]>>],
     [type |-> "batch", store |-> "mk",
      m |-> <<[delete |-> FALSE, key |-> <<97>>, value |-> "v2"],
              [delete |-> FALSE, key |-> <<98>>, value |-> "v2"]>>],
     [type |-> "other", store |-> "mk", m |-> <<>>]}

ConcOps ==
    {[name |-> "Get", key |-> <<97>>, value |-> "", bm |-> NoOp.bm],
     [name |-> "Find", key |-> <<>>, value |-> "", bm |-> NoOp.bm],
     [name |-> "Set", key |-> <<97>>, value |-> "v1", bm |-> NoOp.bm],
     [name |-> "Delete", key |-> <<97>>, value |-> "", bm |-> NoOp.bm],
     [name |-> "Delete", key |-> <<>>, value |-> "", bm |-> NoOp.bm]}
    \cup {[name |-> "CommitBatch", key |-> <<>>, value |-> "", bm |-> b] :
            b \in ConcBatches}

\* What a method does once it holds the lock.
Body(p) ==
    \/ Get(p)
    \/ Find(p)
    \/ Set(p)
    \/ Delete(p)
    \/ CommitBatchStep(p)
    \/ CommitBatchReturn(p)

ConcStep(p) ==
    \/ \E o \in ConcOps : CallStore(p, o)
    \/ CommitBatchInvalid(p)
    \/ Lock(p)
    \/ Body(p)
    \/ Finish(p)

\* The callers run concurrently: their steps interleave.
NextConc == \E p \in Procs : ConcStep(p)

SpecConc == InitStore /\ [][NextConc]_vars

\* A goroutine that holds the lock keeps running: each backend call returns,
\* with a result or an error. Nothing makes a caller call, or the mutex favour
\* a waiting caller.
FairConc == SpecConc /\ \A p \in Procs : WF_vars(Body(p))

----------------------------------------------------------------------------
(* Properties of the store *)

\* The store as the map it stands for.
HasKey(d, k) == Matching(d, k) # {}

\* What Set(k, v) and Delete(k) are specified to do to a store.
SetSpec(d, k, v) == {x \in d : x.key # k} \cup {[key |-> k, value |-> v]}

DeleteSpec(d, k) == IF k = <<>> THEN {} ELSE {x \in d : x.key # k}

\* The mutations ms applied to d one at a time, in order.
RECURSIVE ApplyInOrder(_, _)
ApplyInOrder(d, ms) ==
    IF ms = <<>> THEN d
    ELSE ApplyInOrder(IF Head(ms).delete
                      THEN DeleteSpec(d, Head(ms).key)
                      ELSE SetSpec(d, Head(ms).key, Head(ms).value),
                      Tail(ms))

\* C9: Delete(k), for a non-empty k the store has no entry for, returns nil
\* and leaves the store as it was (the backend itself not failing).
DeleteMissingSucceeds ==
    \A p \in Procs :
        (/\ kpc[p] = "done" /\ kop[p].name = "Delete"
         /\ kop[p].key # <<>>
         /\ ~HasKey(kpre[p], kop[p].key)
         /\ kres[p].err # "backend") =>
            (kres[p].err = "nil" /\ db = kpre[p])

\* C10: a CommitBatch the backend does not fail leaves the store as the
\* pre-commit store with the batch's mutations applied one at a time in the
\* order accumulated (stated for the batches whose keys are all non-empty).
CommitAppliesInOrder ==
    \A p \in Procs :
        (/\ kpc[p] = "done" /\ kop[p].name = "CommitBatch"
         /\ IsBatch(kop[p].bm)
         /\ \A i \in 1..Len(kop[p].bm.m) : kop[p].bm.m[i].key # <<>>
         /\ kres[p].err # "backend") =>
            db = ApplyInOrder(kpre[p], kop[p].bm.m)

\* What one mutation of a batch does to a store when its backend call succeeds.
EffectOf(d, m) ==
    IF m.delete THEN {x \in d : x.key # m.key} ELSE SetSpec(d, m.key, m.value)

\* The first n mutations of ms applied to d, in order.
RECURSIVE Applied(_, _, _)
Applied(d, ms, n) ==
    IF n = 0 THEN d ELSE EffectOf(Applied(d, ms, n - 1), ms[n])

\* e is an error the mutation m can fail with on the store d.
ErrorOf(d, m, e) ==
    \/ e = "backend"
    \/ e = "mgo.NotFound" /\ m.delete /\ ~HasKey(d, m.key)

\* C11: a CommitBatch that returns an error stopped at some operation i: the
\* error is that operation's, operations 1..i-1 are applied to the pre-commit
\* store and nothing else is (no rollback, nothing after i); a CommitBatch
\* that returns nil applied every operation.
CommitStopsAtFailure ==
    \A p \in Procs :
        (/\ kpc[p] = "done" /\ kop[p].name = "CommitBatch"
         /\ kop[p].bm.type = "batch") =>
            IF kres[p].err = "nil"
            THEN db = Applied(kpre[p], kop[p].bm.m, Len(kop[p].bm.m))
            ELSE \E i \in 1..Len(kop[p].bm.m) :
                    /\ db = Applied(kpre[p], kop[p].bm.m, i - 1)
                    /\ ErrorOf(db, kop[p].bm.m[i], kres[p].err)

\* Witness of C11: a commit of three operations failed at the second; the
\* first stays applied, the third is not.
CommitStoppedReached ==
    /\ kpc["p1"] = "done" /\ kop["p1"].name = "CommitBatch"
    /\ kop["p1"].bm.type = "batch" /\ Len(kop["p1"].bm.m) = 3
    /\ kres["p1"].err # "nil" /\ kidx["p1"] = 2
    /\ db # kpre["p1"]
    /\ db = Applied(kpre["p1"], kop["p1"].bm.m, 1)
    /\ db # Applied(kpre["p1"], kop["p1"].bm.m, 3)

SetThenGet ==
    /\ \A p \in Procs :
          (/\ kpc[p] = "done" /\ kop[p].name = "Get"
           /\ kprev[p].name = "Set" /\ kprev[p].key = kop[p].key
           /\ kprev[p].err = "nil"
           /\ kres[p].err # "backend") =>
              kres[p] = [err |-> "nil", value |-> kprev[p].value]
    /\ \A p \in Procs :
          (/\ kpc[p] = "done" /\ kop[p].name = "Set" /\ kres[p].err = "nil") =>
              {x \in db : x.key = kop[p].key}
                  = {[key |-> kop[p].key, value |-> kop[p].value]}
    /\ \A x, y \in db : x.key = y.key => x = y

\* Witness of C13: Set(k, v) replaced the entry of k, which carried another
\* value, and the Get(k) that followed returned v.
SetThenGetReached ==
    /\ kpc["p1"] = "done" /\ kop["p1"].name = "Get" /\ kop["p1"].key = <<97>>
    /\ kprev["p1"] = [name |-> "Set", key |-> <<97>>, value |-> "v2", err |-> "nil"]
    /\ kres["p1"] = [err |-> "nil", value |-> "v2"]
    /\ Cardinality(db) >= 2

\* C14: a Get(k) that follows a Delete(k), no other Set or Delete completed in
\* between and the backend failing neither call, fails with ErrNotFound; a
\* Find("") that follows a Delete("") the backend did not fail yields nothing.
DeleteThenGet ==
    /\ \A p \in Procs :
          (/\ kpc[p] = "done" /\ kop[p].name = "Get"
           /\ kprev[p].name = "Delete" /\ kprev[p].key = kop[p].key
           /\ kprev[p].err # "backend"
           /\ kres[p].err # "backend") =>
              kres[p].err = "ErrNotFound"
    /\ \A p \in Procs :
          (/\ kpc[p] = "done" /\ kop[p].name = "Find" /\ kop[p].key = <<>>
           /\ kprev[p].name = "Delete" /\ kprev[p].key = <<>>
           /\ kprev[p].err # "backend") =>
              kiter[p] = <<>>

\* Witness of C14: Delete("a") removed the entry of "a" and the Get("a") that
\* followed failed with ErrNotFound, other entries being left.
DeleteThenGetReached ==
    /\ kpc["p1"] = "done" /\ kop["p1"].name = "Get" /\ kop["p1"].key = <<97>>
    /\ kprev["p1"] = [name |-> "Delete", key |-> <<97>>, value |-> "", err |-> "nil"]
    /\ kres["p1"].err = "ErrNotFound"
    /\ db # {}

\* s starts with the literal prefix pre.
HasPrefix(s, pre) == Len(pre) <= Len(s) /\ SubSeq(s, 1, Len(pre)) = pre

\* C15: the iterator Find(prefix) returns yields exactly the entries whose
\* key starts with the literal prefix, in ascending order of key.
FindLiteralPrefix ==
    \A p \in Procs :
        (kpc[p] = "done" /\ kop[p].name = "Find") =>
            /\ {kiter[p][i] : i \in 1..Len(kiter[p])}
                  = {x \in db : HasPrefix(x.key, kop[p].key)}
            /\ \A i, j \in 1..Len(kiter[p]) :
                  i < j => StrLess(kiter[p][i].key, kiter[p][j].key)

\* The callers inside a method, holding the lock.
Inside == {p \in Procs : kpc[p] = "locked"}

\* C16: under every interleaving of concurrent Get, Find, Set, Delete and
\* CommitBatch calls at most one caller is inside a method; the store changes
\* only while a caller is inside, and a method that took the lock returns its
\* result from inside; the mutex is held exactly
\* while a caller is inside, so every return releases it, and a held mutex
\* is always released in the end.
OneAtATime ==
    /\ [](Cardinality(Inside) <= 1)
    /\ [](mu <=> Inside # {})
    /\ [][/\ db' # db => Inside # {}
          /\ \A p \in Procs :
                (/\ kpc[p] # "done" /\ kpc'[p] = "done"
                 /\ kres'[p].err # "invalid batch type") => Inside = {p}]_vars
    /\ (mu ~> ~mu)

\* Witness of C16: p1 left a method on an error path and p2 is inside Find.
OneAtATimeReached ==
    /\ kpc["p1"] = "done" /\ kres["p1"].err \in {"backend", "mgo.NotFound"}
    /\ kpc["p2"] = "locked" /\ kop["p2"].name = "Find"
    /\ db # {}

\* C17: no stored entry has the empty key.
NoEmptyKeyStored == \A x \in db : x.key # <<>>

\* C19: a commit of the batch holding the single mutation Delete(k) leaves the
\* store, and returns the error, that a direct Delete(k) on the pre-commit
\* store leaves and returns (the backend itself not failing), for every k.
BatchDeleteAsDirect ==
    \A p \in Procs :
        (/\ kpc[p] = "done" /\ kop[p].name = "CommitBatch"
         /\ kop[p].bm.type = "batch"
         /\ Len(kop[p].bm.m) = 1 /\ kop[p].bm.m[1].delete
         /\ kres[p].err # "backend") =>
            /\ db = DeleteCall(kpre[p], kop[p].bm.m[1].key).db
            /\ kres[p].err = DeleteCall(kpre[p], kop[p].bm.m[1].key).err

\* C20: while a caller is inside CommitBatch no other caller is inside a
\* method, so none changes or reads the store between two operations of the
\* batch; when the commit returns, the store is the store as it was when the
\* commit took the lock with the operations of the batch applied in order
\* (up to the one that failed): concurrent commits act one after the other.
CommitIsolated ==
    /\ [](\A p, q \in Procs :
            (kpc[p] = "locked" /\ kop[p].name = "CommitBatch" /\ q # p) =>
                kpc[q] # "locked")
    /\ [][\A p \in Procs :
            (kpc[p] = "locked" /\ kop[p].name = "CommitBatch") =>
                /\ \A q \in Procs \ {p} :
                      /\ kpc'[q] # "locked"
                      /\ kiter'[q] # kiter[q] => kpc[q] = "done"
                      /\ kres'[q] # kres[q] =>
                            (kpc[q] = "done" \/ kop[q].bm.type = "other")
                /\ db' # db => (kidx'[p] = kidx[p] + 1 \/ kpc'[p] = "done")
                /\ kpc'[p] = "done" =>
                      IF kres'[p].err = "nil"
                      THEN db' = Applied(kpre[p], kop[p].bm.m, Len(kop[p].bm.m))
                      ELSE \E i \in 1..Len(kop[p].bm.m) :
                              /\ db' = Applied(kpre[p], kop[p].bm.m, i - 1)
                              /\ ErrorOf(db', kop[p].bm.m[i], kres'[p].err)]_vars

\* Witness of C20: p1 is between the two operations of its batch, the first
\* applied, while p2 has called Set and waits for the lock.
CommitIsolatedReached ==
    /\ kpc["p1"] = "locked" /\ kop["p1"].name = "CommitBatch" /\ kidx["p1"] = 2
    /\ db # kpre["p1"]
    /\ kpc["p2"] = "called" /\ kop["p2"].name = "Set"

====
